---- MODULE Spec2Model ----
(***************************************************************************)
(* Model of the requirement aggregation and canonicalization engine of    *)
(* job-market-analysis (src/old/job_market_multi_agent.py), of the Google  *)
(* Jobs collector (src/google_jobs_tool.py), of the report and output      *)
(* files (src/tools/save_html_tool.py, src/job_market_multi_agent.py) and  *)
(* of the crew (src/build_crew.py).                                        *)
(*                                                                         *)
(* Strings are sequences of character codes (Python code points), so that *)
(* lowercasing, whitespace collapsing, punctuation stripping and lexical  *)
(* comparison are computed as Python computes them.                       *)
(* A Counter is the sequence of its (item, count) entries in insertion    *)
(* order (a Python dict keeps insertion order); a DataFrame is the        *)
(* sequence of its rows.  A percentage is kept in tenths (33.3 is 333).   *)
(***************************************************************************)
EXTENDS Integers, Sequences, FiniteSets, TLC

VARIABLES
    pc,                \* control point of the function under analysis
    items_per_doc,     \* compute_document_frequency: argument
    df,                \* compute_document_frequency: returned Counter
    total,             \* compute_document_frequency: returned document count
    table,             \* to_table: returned rows
    items,             \* canonicalize_items: argument
    oracle,            \* canonicalize_items: what the normalizer agent answers
    canonical_map,     \* canonicalize_items: returned dict / analyze: argument
    job_extractions,   \* analyze: argument
    resume_extraction, \* analyze: argument
    results,           \* analyze: returned dict
    run,               \* the script: environment, arguments of run, progress
    resume_pdf,        \* extract_resume: whether the resume file can be read
    answer,            \* extract_*: what the extractor agent answers
    data,              \* extract_*: returned dict
    job_titles,        \* GoogleJobsCollectorTool._run: argument
    limit,             \* GoogleJobsCollectorTool._run: argument
    fetch_full_listing, \* GoogleJobsCollectorTool._run: argument
    serp,              \* what the search request answers for each title
    listing_bad,       \* the job whose listing request goes wrong, and how
    search_jobs,       \* _run: jobs, the result of the current search
    title_idx,         \* _run: position of the loop over job_titles
    job_idx,           \* _run: position of the loop over jobs
    collected,         \* _run: collected
    seen_keys,         \* _run: seen_keys
    requests,          \* HTTP requests issued by _run so far
    exc,               \* the request whose exception left _run, if any
    now,               \* the local clock read by datetime.now()
    files,             \* the files on disk: path, content, the save that wrote it
    saves,             \* saves done so far
    lost,              \* saves whose file a later write replaced
    crew_inputs,       \* crew.kickoff: inputs
    task_status,       \* the crew: status of each task
    task_output        \* the crew: output of each finished task

dfVars    == <<items_per_doc, df, total, table>>
canonVars == <<items, oracle>>
anVars    == <<job_extractions, resume_extraction, results>>
exVars    == <<resume_pdf, answer, data>>
gjVars    == <<job_titles, limit, fetch_full_listing, serp, listing_bad, search_jobs,
               title_idx, job_idx, collected, seen_keys, requests, exc>>
svVars    == <<now, files, saves, lost>>
crVars    == <<crew_inputs, task_status, task_output>>
vars      == <<pc, dfVars, canonVars, canonical_map, anVars, run, exVars, gjVars,
               svVars, crVars>>

-----------------------------------------------------------------------------
(* Bounds *)
MaxDocs  == 2      \* documents handed to compute_document_frequency
MaxRaw   == 3      \* raw strings in all documents' lists together
MaxItems == 2      \* raw strings handed to canonicalize_items

-----------------------------------------------------------------------------
(* Strings *)

EmptyStr == <<>>

\* str.strip() / the regex class \s : the ASCII whitespace characters
Whitespace == {9, 10, 11, 12, 13, 32}

\* the argument of t.strip(" ,.;:-_/\\()[]{}\"'")
StripChars == {32, 44, 46, 59, 58, 45, 95, 47, 92, 40, 41, 91, 93, 123, 125, 34, 39}

RECURSIVE LStrip(_, _)
LStrip(s, chars) ==
    IF s = <<>> THEN <<>>
    ELSE IF Head(s) \in chars THEN LStrip(Tail(s), chars)
    ELSE s

RECURSIVE RStrip(_, _)
RStrip(s, chars) ==
    IF s = <<>> THEN <<>>
    ELSE IF s[Len(s)] \in chars THEN RStrip(SubSeq(s, 1, Len(s) - 1), chars)
    ELSE s

\* str.strip(chars)
Strip(s, chars) == RStrip(LStrip(s, chars), chars)

\* str.lower() on ASCII
Lower(s) == [i \in 1..Len(s) |-> IF s[i] \in 65..90 THEN s[i] + 32 ELSE s[i]]

\* re.sub(r"\s+", " ", t)
RECURSIVE CollapseWhitespace(_)
CollapseWhitespace(s) ==
    IF s = <<>> THEN <<>>
    ELSE IF Head(s) \in Whitespace
         THEN <<32>> \o CollapseWhitespace(LStrip(s, Whitespace))
         ELSE <<Head(s)>> \o CollapseWhitespace(Tail(s))

\* normalize_token: lowercase, collapse whitespace, trim punctuation
normalize_token(t) ==
    Strip(CollapseWhitespace(Lower(Strip(t, Whitespace))), StripChars)

\* the filter "if x and x.strip()" used before normalizing
Truthy(x) == x # <<>> /\ Strip(x, Whitespace) # <<>>

\* Python's < on str: lexicographic on code points
RECURSIVE LexLess(_, _)
LexLess(a, b) ==
    IF b = <<>> THEN FALSE
    ELSE IF a = <<>> THEN TRUE
    ELSE IF Head(a) # Head(b) THEN Head(a) < Head(b)
    ELSE LexLess(Tail(a), Tail(b))

-----------------------------------------------------------------------------
(* Raw strings the callers and oracles hand in *)
R_blank == <<32>>               \* " "
R_dash  == <<45>>               \* "-"
R_a     == <<97>>               \* "a"
R_A     == <<32, 65>>           \* " A"
R_b     == <<98>>               \* "b"
R_a__b  == <<97, 32, 32, 98>>   \* "a  b"
R_a_b   == <<97, 32, 98>>       \* "a b"

RawStrings == {R_blank, R_dash, R_a, R_A, R_b, R_a__b, R_a_b}

\* sequences over S of length at most n
SeqUpTo(S, n) == UNION {[1..k -> S] : k \in 0..n}

\* sum of the first n elements of a sequence of numbers
RECURSIVE SumTo(_, _)
SumTo(lens, n) == IF n = 0 THEN 0 ELSE SumTo(lens, n - 1) + lens[n]

\* the list of lists that cuts flat into pieces of the lengths lens
Split(flat, lens) ==
    [i \in DOMAIN lens |-> SubSeq(flat, SumTo(lens, i - 1) + 1, SumTo(lens, i))]

-----------------------------------------------------------------------------
(* collections.Counter *)

\* the orders in which iterating a set can yield its elements
Orders(S) ==
    {p \in [1..Cardinality(S) -> S] : \A i, j \in DOMAIN p : i # j => p[i] # p[j]}

CounterKeys(c) == {c[i].item : i \in DOMAIN c}

\* c[k], 0 for a missing key
CounterGet(c, k) ==
    IF k \in CounterKeys(c)
    THEN (CHOOSE e \in {c[i] : i \in DOMAIN c} : e.item = k).count
    ELSE 0

\* position of key k in the Counter's insertion order
CounterPos(c, k) == CHOOSE i \in DOMAIN c : c[i].item = k

\* c[k] += n
CounterAdd(c, k, n) ==
    IF k \in CounterKeys(c)
    THEN [i \in DOMAIN c |-> IF c[i].item = k
                             THEN [item |-> k, count |-> c[i].count + n]
                             ELSE c[i]]
    ELSE Append(c, [item |-> k, count |-> n])

\* Counter.update(iterable): one increment per element, in iteration order
RECURSIVE CounterUpdate(_, _)
CounterUpdate(c, elems) ==
    IF elems = <<>> THEN c
    ELSE CounterUpdate(CounterAdd(c, Head(elems), 1), Tail(elems))

\* insert e into a list sorted by descending count, after its equals (stable)
RECURSIVE InsertByCount(_, _)
InsertByCount(sorted, e) ==
    IF sorted = <<>> THEN <<e>>
    ELSE IF Head(sorted).count >= e.count
         THEN <<Head(sorted)>> \o InsertByCount(Tail(sorted), e)
         ELSE <<e>> \o sorted

\* sorted(items, key=count, reverse=True): stable, equals keep their order
RECURSIVE SortByCount(_)
SortByCount(c) ==
    IF c = <<>> THEN <<>>
    ELSE InsertByCount(SortByCount(SubSeq(c, 1, Len(c) - 1)), c[Len(c)])

\* top_n=None
NoTopN == -1

\* a plausible slip: iterating the Counter's items without ranking them
most_common_Unranked(c, n) ==
    IF n = NoTopN THEN c
    ELSE SubSeq(c, 1, IF n < Len(c) THEN n ELSE Len(c))

\* Counter.most_common(n)
most_common(c, n) ==
    IF n = NoTopN THEN SortByCount(c)
    ELSE SubSeq(SortByCount(c), 1, IF n < Len(c) THEN n ELSE Len(c))

-----------------------------------------------------------------------------
(* compute_document_frequency *)

\* a plausible slip: counting every occurrence (term frequency)
DocUpdates_Occurrences(doc_items) ==
    {[i \in 1..Len(SelectSeq(doc_items, Truthy)) |->
          normalize_token(SelectSeq(doc_items, Truthy)[i])]}

\* line 63-64: unique = set(...); df.update(unique) -- the sequences of keys
\* the update can see, one per iteration order of the set
DocUpdates(doc_items) ==
    Orders({normalize_token(doc_items[j]) :
               j \in {j \in DOMAIN doc_items : Truthy(doc_items[j])}})

\* the Counters the loop of lines 61-64 can build
RECURSIVE DocumentFrequencies(_)
DocumentFrequencies(docs) ==
    IF docs = <<>> THEN {<<>>}
    ELSE UNION {{CounterUpdate(c, u) : u \in DocUpdates(docs[Len(docs)])} :
                   c \in DocumentFrequencies(SubSeq(docs, 1, Len(docs) - 1))}

\* a plausible slip: the total kept away from zero
compute_document_frequency_AtLeastOne(docs) ==
    {<<c, IF Len(docs) = 0 THEN 1 ELSE Len(docs)>> : c \in DocumentFrequencies(docs)}

\* the (df, len(items_per_doc)) pairs compute_document_frequency can return
compute_document_frequency(docs) ==
    {<<c, Len(docs)>> : c \in DocumentFrequencies(docs)}

-----------------------------------------------------------------------------
(* to_table *)

\* a plausible slip: truncating instead of rounding
Round1_Truncate(v, total_docs) ==
    IF total_docs # 0 THEN (1000 * v) \div total_docs ELSE 0

\* round(v / total_docs * 100.0, 1) in tenths, 0.0 when total_docs is 0.
\* The quotient is taken exactly; Python rounds a tie to the even neighbour.
\* An exact tie needs total_docs to be a multiple of 16; there the float
\* product v / total_docs * 100.0 can fall on either side of the tie
\* (23 of 80 gives 28.7), still one of the two nearest tenths.
Round1(v, total_docs) ==
    IF total_docs # 0
    THEN LET q == (1000 * v) \div total_docs
             r == (1000 * v) % total_docs
         IN  IF 2 * r < total_docs THEN q
             ELSE IF 2 * r > total_docs THEN q + 1
             ELSE IF q % 2 = 0 THEN q ELSE q + 1
    ELSE 0

to_table(counter, total_docs, top_n) ==
    LET mc == most_common(counter, top_n)
    IN  [i \in 1..Len(mc) |->
            [item |-> mc[i].item, count |-> mc[i].count,
             percent |-> Round1(mc[i].count, total_docs)]]

-----------------------------------------------------------------------------
(* Specification SpecDF: compute_document_frequency and to_table applied   *)
(* to every bounded list of per-posting lists of raw strings               *)

Idle == <<>>

\* the variables of the extractors, the collector, the savers and the crew,
\* not under analysis
ExIdle == resume_pdf = Idle /\ answer = Idle /\ data = Idle
GjIdle ==
    /\ job_titles = Idle /\ limit = Idle /\ fetch_full_listing = Idle
    /\ serp = Idle /\ listing_bad = Idle /\ search_jobs = Idle
    /\ title_idx = Idle /\ job_idx = Idle /\ collected = Idle
    /\ seen_keys = Idle /\ requests = Idle /\ exc = Idle
SvIdle == now = Idle /\ files = Idle /\ saves = Idle /\ lost = Idle
CrIdle == crew_inputs = Idle /\ task_status = Idle /\ task_output = Idle

InitDF ==
    /\ pc = "df_call"
    /\ \E d \in 0..MaxDocs :
           \E lens \in [1..d -> 0..MaxRaw] :
               /\ SumTo(lens, d) <= MaxRaw
               /\ \E flat \in [1..SumTo(lens, d) -> RawStrings] :
                      items_per_doc = Split(flat, lens)
    /\ df = Idle /\ total = 0 /\ table = Idle
    /\ items = Idle /\ oracle = Idle /\ canonical_map = Idle
    /\ job_extractions = Idle /\ resume_extraction = Idle /\ results = Idle
    /\ run = Idle
    /\ ExIdle /\ GjIdle /\ SvIdle /\ CrIdle

ComputeDF ==
    /\ pc = "df_call"
    /\ \E r \in compute_document_frequency(items_per_doc) :
           /\ df' = r[1]
           /\ total' = r[2]
    /\ pc' = "df_returned"
    /\ UNCHANGED <<items_per_doc, table, canonVars, canonical_map, anVars, run, exVars, gjVars, svVars, crVars>>

ToTable ==
    /\ pc = "df_returned"
    /\ \E top_n \in {NoTopN, 1} :
           table' = to_table(df, total, top_n)
    /\ pc' = "df_tabled"
    /\ UNCHANGED <<items_per_doc, df, total, canonVars, canonical_map, anVars, run, exVars, gjVars, svVars, crVars>>

NextDF == ComputeDF \/ ToTable

SpecDF == InitDF /\ [][NextDF]_vars

-----------------------------------------------------------------------------
(* canonicalize_items *)

\* labels the normalizer agent can answer with
L_empty == <<>>            \* ""
L_dash  == <<45>>          \* "-"
L_B     == <<66, 32>>      \* "B "
L_c     == <<99>>          \* "c"
L_a     == <<97>>          \* "a"

OracleLabels == {L_empty, L_dash, L_B, L_c, L_a}

\* keys the agent can put in its "canonical_map" object ("c" is no input)
OracleKeys == {<<97>>, <<98>>, <<99>>}

\* The agent's answer: "fail" when _run_single_task raises or
\* _parse_json_strict finds no JSON, "no_map" for an object without a
\* (non-empty) "canonical_map", "map" for an object with one.
OracleResponses ==
    {[kind |-> "fail", cmap |-> <<>>], [kind |-> "no_map", cmap |-> <<>>]}
    \cup {[kind |-> "map", cmap |-> m] :
             m \in UNION {[K -> OracleLabels] : K \in SUBSET OracleKeys}}

\* line 274: cmap = data.get("canonical_map", {}) or {}
ResponseMap(resp) == IF resp.kind = "map" THEN resp.cmap ELSE <<>>

\* dict.get(k, default)
DictGet(d, k, default) == IF k \in DOMAIN d THEN d[k] ELSE default

\* line 261: the keys of sorted(set(normalize_token(x) for x in items if x and x.strip()))
UniqueItems(its) ==
    {normalize_token(its[j]) : j \in {j \in DOMAIN its : Truthy(its[j])}}

\* a plausible slip: building the result from the agent's keys
FinalMap_OracleKeys(unique_items, cmap) ==
    [it \in DOMAIN cmap |-> normalize_token(cmap[it])]

\* a plausible slip: no fallback for a label that normalizes to nothing
FinalMap_NoFallback(unique_items, cmap) ==
    [it \in unique_items |-> normalize_token(DictGet(cmap, it, it))]

\* lines 277-281: every item is mapped, with a fallback to itself
FinalMap(unique_items, cmap) ==
    [it \in unique_items |->
        LET mapped == normalize_token(DictGet(cmap, it, it))
        IN  IF mapped # <<>> THEN mapped ELSE it]

\* canonicalize_items: the returned dict, or that the call raised
canonicalize_items(its, resp) ==
    IF UniqueItems(its) = {} THEN [raised |-> FALSE, map |-> <<>>]
    ELSE IF resp.kind = "fail" THEN [raised |-> TRUE, map |-> <<>>]
    ELSE [raised |-> FALSE, map |-> FinalMap(UniqueItems(its), ResponseMap(resp))]

\* analyze.apply_map on one string: canonical_map.get(nx, nx)
apply_one(cmap, x) == DictGet(cmap, normalize_token(x), normalize_token(x))

-----------------------------------------------------------------------------
(* Specification SpecCanon: canonicalize_items applied to every bounded    *)
(* list of raw strings and every answer of the normalizer agent            *)

InitCanon ==
    /\ pc = "canon_call"
    /\ items \in SeqUpTo(RawStrings, MaxItems)
    /\ oracle \in OracleResponses
    /\ canonical_map = Idle
    /\ items_per_doc = Idle /\ df = Idle /\ total = 0 /\ table = Idle
    /\ job_extractions = Idle /\ resume_extraction = Idle /\ results = Idle
    /\ run = Idle
    /\ ExIdle /\ GjIdle /\ SvIdle /\ CrIdle

Canonicalize ==
    /\ pc = "canon_call"
    /\ LET r == canonicalize_items(items, oracle)
       IN  /\ canonical_map' = r.map
           /\ pc' = IF r.raised THEN "canon_raised" ELSE "canon_returned"
    /\ UNCHANGED <<dfVars, canonVars, anVars, run, exVars, gjVars, svVars, crVars>>

NextCanon == Canonicalize

SpecCanon == InitCanon /\ [][NextCanon]_vars

-----------------------------------------------------------------------------
(* analyze *)

S_Python == <<80, 121, 116, 104, 111, 110>>         \* "Python"
S_python == <<112, 121, 116, 104, 111, 110, 32>>    \* "python "
S_Docker == <<68, 111, 99, 107, 101, 114>>          \* "Docker"
S_ML     == <<77, 76>>                              \* "ML"
S_AWS    == <<65, 87, 83>>                          \* "AWS"
S_Azure  == <<65, 122, 117, 114, 101>>              \* "Azure"
S_GCP    == <<71, 67, 80>>                          \* "GCP"
S_Oracle == <<79, 114, 97, 99, 108, 101, 32, 67, 108, 111, 117, 100>>  \* "Oracle Cloud"
S_Cert   == <<65, 87, 83, 32, 83, 65>>              \* "AWS SA"
S_Kube   == <<75, 117, 98, 101>>                    \* "Kube"
S_ml_ops == <<109, 108, 32, 111, 112, 115>>         \* "ml ops"
S_SQL    == <<83, 81, 76>>                          \* "SQL"
S_Git    == <<71, 105, 116>>                        \* "Git"
S_CKA    == <<67, 75, 65>>                          \* "CKA"
S_PMP    == <<80, 77, 80>>                          \* "PMP"

Extraction(sk, tl, ce, cl) ==
    [skills |-> sk, tools |-> tl, certifications |-> ce, cloud_platforms |-> cl]

\* what extract_job_requirements returns for a posting (lines 232-237),
\* for the answers the job extractor agent gives in this model
JobExtractionValues ==
    { Extraction(<<S_Python, S_Docker>>, <<>>, <<>>, <<S_AWS>>),
      Extraction(<<S_python>>, <<S_Docker, S_python>>, <<S_Cert>>, <<S_Oracle, S_AWS>>),
      Extraction(<<S_ML>>, <<S_GCP>>, <<R_dash>>, <<S_GCP>>),
      Extraction(<<>>, <<>>, <<>>, <<>>) }

\* extractions of postings that share no requirement: three of them hold
\* more distinct tokens than top10_missing keeps
WideExtractionValues ==
    { Extraction(<<S_Python>>, <<S_Docker>>, <<S_Cert>>, <<S_AWS>>),
      Extraction(<<S_ML>>, <<S_Kube>>, <<S_CKA>>, <<S_Azure>>),
      Extraction(<<S_SQL>>, <<S_Git>>, <<S_PMP>>, <<S_GCP>>) }

\* what extract_resume returns (lines 248-253)
ResumeExtractionValues ==
    { Extraction(<<>>, <<>>, <<>>, <<>>),
      Extraction(<<S_Python>>, <<S_Kube>>, <<>>, <<S_AWS>>),
      Extraction(<<S_ML, R_blank>>, <<S_Docker>>, <<S_Cert>>, <<>>) }

\* answers of the normalizer agent for these tokens
AnalyzeOracleResponses ==
    { [kind |-> "no_map", cmap |-> <<>>],
      [kind |-> "map", cmap |-> (normalize_token(S_Docker) :> S_Kube
                                  @@ normalize_token(S_ML) :> S_ml_ops)],
      [kind |-> "map", cmap |-> (normalize_token(S_Oracle) :> S_AWS
                                  @@ normalize_token(S_Python) :> R_dash)] }

Range(f) == {f[i] : i \in DOMAIN f}

NonEmpty(o) == o # <<>>

\* run, lines 395-402: the items the canonical map is built from
AllItems(jobs, resume) ==
    LET OfOne(x) == x.skills \o x.tools \o x.certifications \o x.cloud_platforms
        RECURSIVE OfJobs(_)
        OfJobs(js) == IF js = <<>> THEN <<>> ELSE OfOne(Head(js)) \o OfJobs(Tail(js))
    IN  OfJobs(jobs) \o OfOne(resume)

\* analyze.apply_map, lines 323-329
apply_map(cmap, lst) ==
    SelectSeq([i \in DOMAIN lst |-> apply_one(cmap, lst[i])], NonEmpty)

\* list(set(...)): the elements in the order the set iterates; the order
\* does not reach the result, compute_document_frequency makes a set again
ListOfSet(S) == CHOOSE p \in Orders(S) : TRUE

\* Counter.update(mapping): adds the counts, in the mapping's order
RECURSIVE CounterUpdateMapping(_, _)
CounterUpdateMapping(c, other) ==
    IF other = <<>> THEN c
    ELSE CounterUpdateMapping(CounterAdd(c, Head(other).item, Head(other).count),
                              Tail(other))

\* a plausible slip: only the skills and tools of the resume are collected
ResumeItems_SkillsOnly(cmap, resume) ==
    {apply_one(cmap, x) : x \in Range(resume.skills) \cup Range(resume.tools)}

\* lines 343-346
ResumeItems(cmap, resume) ==
    {apply_one(cmap, x) :
        x \in Range(resume.skills) \cup Range(resume.tools)
              \cup Range(resume.certifications) \cup Range(resume.cloud_platforms)}

\* certs_table is built with top_n=30 (line 360)
CertsTopN == 30

\* top10_missing = missing[:10] (line 361)
TopMissing == 10

\* a plausible slip: one entry more than the ten is kept
TopOf_OneMore(missing) ==
    SubSeq(missing, 1, IF Len(missing) < TopMissing + 1 THEN Len(missing)
                       ELSE TopMissing + 1)

\* line 361: missing[:10]
TopOf(missing) ==
    SubSeq(missing, 1, IF Len(missing) < TopMissing THEN Len(missing) ELSE TopMissing)

\* a plausible slip: the resume is aggregated as one more document
MarketDocs_WithResume(jobs, resume) == Append(jobs, resume)

\* lines 331-336: the per-posting lists are built from job_extractions only
MarketDocs(jobs, resume) == jobs

\* a plausible slip: each category divided by the postings that mention it
TableTotal_PerCategory(counter, total_docs, docs) ==
    Cardinality({d \in DOMAIN docs : docs[d] # <<>>})

\* lines 358-360: every table is built with the total of the skills counter
TableTotal(counter, total_docs, docs) == total_docs

\* lines 349-362, for one choice of the three counters
AnalyzeResult(jobs, resume, cmap, skill_df, cloud_df, cert_df, total_docs, per_job) ==
    LET market == CounterUpdateMapping(CounterUpdateMapping(
                      CounterUpdateMapping(<<>>, skill_df), cert_df), cloud_df)
        ranked == most_common(market, NoTopN)
        IsMissing(e) == e.item # <<>> /\ e.item \notin ResumeItems(cmap, resume)
        missing == [i \in DOMAIN SelectSeq(ranked, IsMissing) |->
                        SelectSeq(ranked, IsMissing)[i].item]
    IN  [n |-> Len(jobs),
         skills_table |-> to_table(skill_df, TableTotal(skill_df, total_docs, per_job.skills), NoTopN),
         clouds_table |-> to_table(cloud_df, TableTotal(cloud_df, total_docs, per_job.clouds), NoTopN),
         certs_table  |-> to_table(cert_df, TableTotal(cert_df, total_docs, per_job.certs), CertsTopN),
         top10_missing |-> TopOf(missing)]

\* analyze: the dicts it can return
analyze(jobs, resume, cmap) ==
    LET docs == MarketDocs(jobs, resume)
        skills_per_job == [i \in DOMAIN docs |-> apply_map(cmap, docs[i].skills)]
        tools_per_job  == [i \in DOMAIN docs |-> apply_map(cmap, docs[i].tools)]
        certs_per_job  == [i \in DOMAIN docs |-> apply_map(cmap, docs[i].certifications)]
        clouds_per_job == [i \in DOMAIN docs |-> apply_map(cmap, docs[i].cloud_platforms)]
        combined_per_job ==
            [i \in DOMAIN docs |->
                ListOfSet(Range(skills_per_job[i]) \cup Range(tools_per_job[i]))]
        per_job == [skills |-> combined_per_job, clouds |-> clouds_per_job,
                    certs |-> certs_per_job]
    IN  {AnalyzeResult(jobs, resume, cmap, s[1], cl[1], ce[1], s[2], per_job) :
            s \in compute_document_frequency(combined_per_job),
            cl \in compute_document_frequency(clouds_per_job),
            ce \in compute_document_frequency(certs_per_job)}

-----------------------------------------------------------------------------
(* Specification SpecAnalyze: analyze applied to bounded lists of posting  *)
(* extractions (postings with shared requirements, or postings with        *)
(* disjoint ones), a resume extraction and a canonical map that            *)
(* canonicalize_items returns for their items                              *)

MaxPosts == 3      \* posting extractions handed to analyze

InitAnalyze ==
    /\ pc = "analyze_call"
    /\ job_extractions \in SeqUpTo(JobExtractionValues, MaxPosts)
                              \cup SeqUpTo(WideExtractionValues, MaxPosts)
    /\ resume_extraction \in ResumeExtractionValues
    /\ \E resp \in AnalyzeOracleResponses :
           canonical_map = canonicalize_items(
                               AllItems(job_extractions, resume_extraction), resp).map
    /\ results = Idle
    /\ items_per_doc = Idle /\ df = Idle /\ total = 0 /\ table = Idle
    /\ items = Idle /\ oracle = Idle
    /\ run = Idle
    /\ ExIdle /\ GjIdle /\ SvIdle /\ CrIdle

Analyze ==
    /\ pc = "analyze_call"
    /\ results' \in analyze(job_extractions, resume_extraction, canonical_map)
    /\ pc' = "analyze_returned"
    /\ UNCHANGED <<dfVars, canonVars, canonical_map, job_extractions, resume_extraction, run, exVars, gjVars, svVars, crVars>>

NextAnalyze == Analyze

SpecAnalyze == InitAnalyze /\ [][NextAnalyze]_vars

-----------------------------------------------------------------------------
(* Specification SpecAggregate: the aggregation functions together, each   *)
(* called on its own inputs: compute_document_frequency and to_table as in *)
(* SpecDF, analyze as in SpecAnalyze                                       *)

InitAggregate == InitDF \/ InitAnalyze

NextAggregate == ComputeDF \/ ToTable \/ Analyze

SpecAggregate == InitAggregate /\ [][NextAggregate]_vars

-----------------------------------------------------------------------------
(* Specification Spec: the script, from its import to the end of run       *)

MaxTitles == 2     \* job titles handed to run

\* The environment the module is imported in and the arguments of run.
\* A key is TRUE when the environment variable is set and not empty.
InitRun ==
    /\ pc = "module_load"
    /\ \E ok \in BOOLEAN, sk \in BOOLEAN, np \in 0..MaxPosts, rf \in BOOLEAN,
          nt \in 0..MaxTitles, ce \in BOOLEAN, fp \in 0..MaxPosts,
          rr \in BOOLEAN :
           run = [openai_api_key |-> ok, serp_api_key |-> sk,
                  job_titles |-> nt, num_posts |-> np, refresh_postings |-> rf,
                  cache_exists |-> ce,
                  \* the posting whose extraction the job extractor agent
                  \* cannot answer (lines 381-386), 0 when it answers all
                  failing_posting |-> IF fp <= np THEN fp ELSE 0,
                  \* whether Resume.pdf can be read and extracted (line 391)
                  resume_readable |-> rr,
                  \* what is written to final_results_summary.json
                  \* (lines 419-424): nothing yet
                  summary |-> <<>>,
                  error |-> "none",
                  external_calls |-> 0,   \* search, extraction, normalizer calls
                  canon_calls |-> 0,      \* calls of canonicalize_items
                  analyze_calls |-> 0]    \* calls of analyze
    /\ items_per_doc = Idle /\ df = Idle /\ total = 0 /\ table = Idle
    /\ items = Idle /\ oracle = Idle /\ canonical_map = Idle
    /\ job_extractions = Idle /\ resume_extraction = Idle /\ results = Idle
    /\ ExIdle /\ GjIdle /\ SvIdle /\ CrIdle

\* lines 20-32: the module's configuration checks
LoadModule ==
    /\ pc = "module_load"
    /\ IF ~run.openai_api_key \/ ~run.serp_api_key
       THEN /\ run' = [run EXCEPT !.error = "RuntimeError"]
            /\ pc' = "import_error"
       ELSE /\ run' = run
            /\ pc' = "run_call"
    /\ UNCHANGED <<dfVars, canonVars, canonical_map, anVars, exVars, gjVars, svVars, crVars>>

\* line 369: run builds its agents
RunBuildAgents ==
    /\ pc = "run_call"
    /\ pc' = "run_collect"
    /\ UNCHANGED <<dfVars, canonVars, canonical_map, anVars, run, exVars, gjVars, svVars, crVars>>

\* line 371: collect_job_postings(collector, titles, country, num_posts,
\* resume_path, refresh) is called without resume_path, which has no
\* default: the call raises TypeError before the function body is entered,
\* nothing in run catches it, and lines 372-424 are never executed.
RunCollect ==
    /\ pc = "run_collect"
    /\ run' = [run EXCEPT !.error = "TypeError"]
    /\ pc' = "run_raised"
    /\ UNCHANGED <<dfVars, canonVars, canonical_map, anVars, exVars, gjVars, svVars, crVars>>

Next == LoadModule \/ RunBuildAgents \/ RunCollect

Spec == InitRun /\ [][Next]_vars

-----------------------------------------------------------------------------
(* extract_job_requirements and extract_resume *)

\* the keys extract_job_requirements defaults (line 235) and the keys
\* extract_resume defaults (line 251)
JobKeys == {"skills", "tools", "cloud_platforms", "certifications", "other_keywords"}
ResumeKeys == {"skills", "tools", "cloud_platforms", "certifications"}

\* what the agent's JSON object holds under a category key: nothing (the key
\* is left out), null, or a list of strings
Absent == [tag |-> "absent", val |-> <<>>]
Null == [tag |-> "null", val |-> <<>>]
ListOf(v) == [tag |-> "list", val |-> v]
CategoryValues == {Absent, Null, ListOf(<<>>), ListOf(<<S_Python>>)}

\* The agent's answer: "raise" when _run_single_task raises, "no_json" when
\* _parse_json_strict raises (lines 216-218), "array" when the output is
\* JSON but no object, "object" when it is a JSON object.
ExtractorAnswers ==
    {[kind |-> k, obj |-> [c \in JobKeys |-> Absent]] : k \in {"raise", "no_json", "array"}}
        \cup {[kind |-> "object", obj |-> o] : o \in [JobKeys -> CategoryValues]}

\* for k in keys: data.setdefault(k, [])
setdefault(obj, keys) ==
    [k \in DOMAIN obj |->
        IF k \in keys /\ obj[k].tag = "absent" THEN ListOf(<<>>) ELSE obj[k]]

\* extract_job_requirements: the dict it returns, or raised; a JSON array
\* has no setdefault (AttributeError)
extract_job_requirements(ans) ==
    IF ans.kind # "object" THEN [raised |-> TRUE, dict |-> Idle]
    ELSE [raised |-> FALSE, dict |-> setdefault(ans.obj, JobKeys)]

\* extract_resume: ResumePDFTool._run raises when the file is missing
extract_resume(pdf, ans) ==
    IF pdf = "missing" \/ ans.kind # "object" THEN [raised |-> TRUE, dict |-> Idle]
    ELSE [raised |-> FALSE, dict |-> setdefault(ans.obj, ResumeKeys)]

-----------------------------------------------------------------------------
(* Specification SpecExtract: the two extractors applied to every answer   *)
(* of the extractor agent                                                  *)

InitExtract ==
    /\ pc = "extract_call"
    /\ resume_pdf \in {"text", "missing"}
    /\ answer \in ExtractorAnswers
    /\ data = Idle
    /\ items_per_doc = Idle /\ df = Idle /\ total = 0 /\ table = Idle
    /\ items = Idle /\ oracle = Idle /\ canonical_map = Idle
    /\ job_extractions = Idle /\ resume_extraction = Idle /\ results = Idle
    /\ run = Idle /\ GjIdle /\ SvIdle /\ CrIdle

ExtractJob ==
    /\ pc = "extract_call"
    /\ LET r == extract_job_requirements(answer)
       IN  /\ data' = r.dict
           /\ pc' = IF r.raised THEN "extract_raised" ELSE "extract_job_returned"
    /\ UNCHANGED <<dfVars, canonVars, canonical_map, anVars, run, resume_pdf, answer, gjVars, svVars, crVars>>

ExtractResume ==
    /\ pc = "extract_call"
    /\ LET r == extract_resume(resume_pdf, answer)
       IN  /\ data' = r.dict
           /\ pc' = IF r.raised THEN "extract_raised" ELSE "extract_resume_returned"
    /\ UNCHANGED <<dfVars, canonVars, canonical_map, anVars, run, resume_pdf, answer, gjVars, svVars, crVars>>

NextExtract == ExtractJob \/ ExtractResume

SpecExtract == InitExtract /\ [][NextExtract]_vars

-----------------------------------------------------------------------------
(* GoogleJobsCollectorTool (src/google_jobs_tool.py) *)

T_DataEngineer == <<68, 97, 116, 97, 32, 69, 110, 103, 105, 110, 101, 101, 114>>   \* "Data Engineer"
T_MLEngineer == <<77, 76, 32, 69, 110, 103, 105, 110, 101, 101, 114>>   \* "ML Engineer"
T_SeniorML == <<83, 101, 110, 105, 111, 114, 32, 77, 76, 32, 69, 110, 103, 105, 110, 101, 101, 114>>   \* "Senior ML Engineer"
T_data_engineer == <<32, 100, 97, 116, 97, 32, 32, 69, 78, 71, 73, 78, 69, 69, 82>>   \* " data  ENGINEER"
T_Nurse == <<78, 117, 114, 115, 101>>   \* "Nurse"

\* _normalize: strip, lowercase, collapse whitespace
_normalize(s) == CollapseWhitespace(Lower(Strip(s, Whitespace)))

IsAlpha(c) == c \in 65..90 \/ c \in 97..122

\* the longest run of letters s starts with
RECURSIVE AlphaRun(_)
AlphaRun(s) ==
    IF s = <<>> \/ ~IsAlpha(Head(s)) THEN <<>>
    ELSE <<Head(s)>> \o AlphaRun(Tail(s))

\* set(re.findall(r"[a-zA-Z]+", s))
RECURSIVE AlphaTokens(_)
AlphaTokens(s) ==
    IF s = <<>> THEN {}
    ELSE IF IsAlpha(Head(s))
         THEN {AlphaRun(s)} \cup AlphaTokens(SubSeq(s, Len(AlphaRun(s)) + 1, Len(s)))
         ELSE AlphaTokens(Tail(s))

\* a plausible slip: half of a target title's tokens is enough
_title_is_similar_Half(found_title, target_titles) ==
    LET ft == AlphaTokens(_normalize(found_title))
    IN  /\ ft # {}
        /\ \E i \in DOMAIN target_titles :
               LET tt_tokens == AlphaTokens(_normalize(target_titles[i]))
               IN  /\ tt_tokens # {}
                   /\ 2 * Cardinality(ft \cap tt_tokens) >= Cardinality(tt_tokens)

\* _title_is_similar: overlap >= 0.6 of some target title's tokens
_title_is_similar(found_title, target_titles) ==
    LET ft == AlphaTokens(_normalize(found_title))
    IN  /\ ft # {}
        /\ \E i \in DOMAIN target_titles :
               LET tt_tokens == AlphaTokens(_normalize(target_titles[i]))
               IN  /\ tt_tokens # {}
                   /\ 10 * Cardinality(ft \cap tt_tokens) >= 6 * Cardinality(tt_tokens)

\* the titles _run is asked for
TargetTitles == {T_DataEngineer, T_MLEngineer}

\* a job of a search result; job_id 0 is a result without job id
Job(t, c, l, id, d) ==
    [title |-> t, company_name |-> c, location |-> l, job_id |-> id, description |-> d]

\* J1 "Data Engineer" at "Acme" in "Berlin"; J2 "Senior ML Engineer" at
\* "Beta" in "Munich", with a blank snippet; J3 " data  ENGINEER" at "ACME "
\* in "berlin", the posting of J1 again; J4 "Nurse"; J5 "Data Engineer" at
\* "Beta" in "Munich", without job id.  The snippets read "snippet".
J1 == Job(T_DataEngineer, <<65, 99, 109, 101>>, <<66, 101, 114, 108, 105, 110>>, 1, <<115, 110, 105, 112, 112, 101, 116>>)
J2 == Job(T_SeniorML, <<66, 101, 116, 97>>, <<77, 117, 110, 105, 99, 104>>, 2, <<32>>)
J3 == Job(T_data_engineer, <<65, 67, 77, 69, 32>>, <<98, 101, 114, 108, 105, 110>>, 3, <<115, 110, 105, 112, 112, 101, 116>>)
J4 == Job(T_Nurse, <<65, 99, 109, 101>>, <<66, 101, 114, 108, 105, 110>>, 4, <<115, 110, 105, 112, 112, 101, 116>>)
J5 == Job(T_DataEngineer, <<66, 101, 116, 97>>, <<77, 117, 110, 105, 99, 104>>, 0, <<115, 110, 105, 112, 112, 101, 116>>)

\* what _serpapi_google_jobs_search does for one title: raise_for_status
\* raises (line 148) or the jobs_results are returned (line 150)
SearchResponses ==
    { [raised |-> TRUE, jobs_results |-> <<>>],
      [raised |-> FALSE, jobs_results |-> <<>>],
      [raised |-> FALSE, jobs_results |-> <<J1, J2>>],
      [raised |-> FALSE, jobs_results |-> <<J3, J4, J5>>] }

\* the listing request that goes wrong: none (job_id 0), or the one of a
\* job, by raising (line 164) or by answering an empty object (line 165)
ListingFaults ==
    {[job_id |-> 0, kind |-> "raise"]}
        \cup {[job_id |-> id, kind |-> k] : id \in 1..3, k \in {"raise", "empty"}}

\* _serpapi_google_jobs_listing: raised, or the details dict
_serpapi_google_jobs_listing(job_id, fault) ==
    IF fault.job_id = job_id /\ fault.kind = "raise"
        THEN [raised |-> TRUE, details |-> <<>>]
    ELSE IF fault.job_id = job_id
        THEN [raised |-> FALSE, details |-> <<>>]
    ELSE [raised |-> FALSE,
          details |-> [job_description |-> <<32, 102, 117, 108, 108, 32, 116, 101, 120, 116, 32>>]]   \* " full text "

\* lines 99-114: the posting appended for job j and listing result details
Posting(j, details) ==
    LET full == IF details = <<>> THEN <<>> ELSE Strip(details.job_description, Whitespace)
    IN  [title |-> j.title, company |-> j.company_name, location |-> j.location,
         job_id |-> j.job_id,
         description |-> IF full # <<>> THEN full ELSE Strip(j.description, Whitespace),
         serpapi_listing_result |-> details]

\* line 89
KeyOf(j) == <<_normalize(j.title), _normalize(j.company_name), _normalize(j.location)>>

-----------------------------------------------------------------------------
(* Specification SpecCollect: one call of GoogleJobsCollectorTool._run     *)

MaxLimit == 2      \* the limit argument

InitCollect ==
    /\ pc = "collect_title"
    /\ job_titles \in SeqUpTo(TargetTitles, MaxTitles)
    /\ serp \in [DOMAIN job_titles -> SearchResponses]
    /\ listing_bad \in ListingFaults
    /\ limit \in 0..MaxLimit
    /\ fetch_full_listing \in BOOLEAN
    /\ collected = <<>> /\ seen_keys = {}
    /\ title_idx = 1 /\ job_idx = 0 /\ search_jobs = <<>>
    /\ requests = 0 /\ exc = "none"
    /\ items_per_doc = Idle /\ df = Idle /\ total = 0 /\ table = Idle
    /\ items = Idle /\ oracle = Idle /\ canonical_map = Idle
    /\ job_extractions = Idle /\ resume_extraction = Idle /\ results = Idle
    /\ run = Idle /\ ExIdle /\ SvIdle /\ CrIdle

collectFrame == <<dfVars, canonVars, canonical_map, anVars, run, exVars, svVars, crVars,
                  job_titles, limit, fetch_full_listing, serp, listing_bad>>

\* lines 66-72: the search request of the next title
CollectSearch ==
    /\ pc = "collect_title"
    /\ title_idx <= Len(job_titles)
    /\ requests' = requests + 1
    /\ IF serp[title_idx].raised
       THEN /\ pc' = "collect_raised"
            /\ exc' = "search"
            /\ UNCHANGED <<search_jobs, job_idx>>
       ELSE /\ pc' = "collect_job"
            /\ search_jobs' = serp[title_idx].jobs_results
            /\ job_idx' = 1
            /\ UNCHANGED exc
    /\ UNCHANGED <<collectFrame, title_idx, collected, seen_keys>>

\* lines 74-117: one job of the search result
CollectJob ==
    /\ pc = "collect_job"
    /\ job_idx <= Len(search_jobs)
    /\ LET j == search_jobs[job_idx]
           fetch == fetch_full_listing /\ j.job_id # 0
           listing == _serpapi_google_jobs_listing(j.job_id, listing_bad)
       IN  IF ~_title_is_similar(j.title, job_titles) \/ KeyOf(j) \in seen_keys
           THEN /\ job_idx' = job_idx + 1
                /\ UNCHANGED <<pc, collected, seen_keys, requests, exc>>
           ELSE /\ seen_keys' = seen_keys \cup {KeyOf(j)}
                /\ requests' = IF fetch THEN requests + 1 ELSE requests
                /\ IF fetch /\ listing.raised
                   THEN /\ pc' = "collect_raised"
                        /\ exc' = "listing"
                        /\ UNCHANGED <<collected, job_idx>>
                   ELSE /\ collected' = Append(collected,
                                Posting(j, IF fetch THEN listing.details ELSE <<>>))
                        /\ job_idx' = job_idx + 1
                        /\ pc' = IF Len(collected') >= limit
                                 THEN "collect_returned" ELSE "collect_job"
                        /\ UNCHANGED exc
    /\ UNCHANGED <<collectFrame, title_idx, search_jobs>>

\* line 119: the jobs of this title are done
CollectNextTitle ==
    /\ pc = "collect_job"
    /\ job_idx > Len(search_jobs)
    /\ title_idx' = title_idx + 1
    /\ pc' = "collect_title"
    /\ UNCHANGED <<collectFrame, search_jobs, job_idx, collected, seen_keys, requests, exc>>

\* line 121: every title is done
CollectReturn ==
    /\ pc = "collect_title"
    /\ title_idx > Len(job_titles)
    /\ pc' = "collect_returned"
    /\ UNCHANGED <<collectFrame, search_jobs, title_idx, job_idx, collected, seen_keys,
                   requests, exc>>

NextCollect == CollectSearch \/ CollectJob \/ CollectNextTitle \/ CollectReturn

SpecCollect == InitCollect /\ [][NextCollect]_vars

-----------------------------------------------------------------------------
(* SaveHTMLTool._run (src/tools/save_html_tool.py) and the output files of *)
(* the script (src/job_market_multi_agent.py)                              *)

\* instants of the clock per second: datetime.now() is finer than the
\* seconds the file names keep
TicksPerSecond == 2

\* datetime.now().strftime("%Y%m%d_%H%M%S"): the instant cut to its second
strftime(t) == t \div TicksPerSecond

\* save_html_tool.py lines 21-22
HtmlPath(timestamp) == <<"../outputs", "job_market_report", timestamp, "html">>

\* job_market_multi_agent.py lines 204, 224, 229
OutputPaths(ts) ==
    { <<"outputs", "crew_output", ts, "json">>,
      <<"outputs", "final_result", ts, "json">>,
      <<"outputs", "final_result", ts, "md">> }

\* open(path, "w") and write, for each path: an existing file is replaced
WriteFiles(fs, paths, text, id) ==
    {f \in fs : f.path \notin paths}
        \cup {[path |-> p, content |-> text, save |-> id] : p \in paths}

\* the saves whose files writing to paths replaces
Replaced(fs, paths) == {f.save : f \in {g \in fs : g.path \in paths}}

-----------------------------------------------------------------------------
(* Specification SpecSave: saves of reports and run outputs as time passes *)

MaxClock == 3      \* instants of the clock
MaxSaves == 3      \* saves

InitSave ==
    /\ pc = "save_ready"
    /\ now = 0 /\ files = {} /\ saves = 0 /\ lost = {}
    /\ items_per_doc = Idle /\ df = Idle /\ total = 0 /\ table = Idle
    /\ items = Idle /\ oracle = Idle /\ canonical_map = Idle
    /\ job_extractions = Idle /\ resume_extraction = Idle /\ results = Idle
    /\ run = Idle /\ ExIdle /\ GjIdle /\ CrIdle

saveFrame == <<pc, dfVars, canonVars, canonical_map, anVars, run, exVars, gjVars, crVars>>

\* time passes
Tick ==
    /\ now < MaxClock
    /\ now' = now + 1
    /\ UNCHANGED <<saveFrame, files, saves, lost>>

\* SaveHTMLTool._run: the file is written, or an exception of makedirs or
\* open is caught and reported in the returned string (lines 29-30)
SaveHTML ==
    /\ saves < MaxSaves
    /\ saves' = saves + 1
    /\ \E html_text \in {"<html>a</html>", "<html>b</html>"}, ok \in BOOLEAN :
           IF ok
           THEN LET paths == {HtmlPath(strftime(now))}
                IN  /\ files' = WriteFiles(files, paths, html_text, saves')
                    /\ lost' = lost \cup Replaced(files, paths)
           ELSE UNCHANGED <<files, lost>>
    /\ UNCHANGED <<saveFrame, now>>

\* job_market_multi_agent.py lines 201-232: the three output files of a run
SaveOutputs ==
    /\ saves < MaxSaves
    /\ saves' = saves + 1
    /\ \E final_text \in {"report a", "report b"} :
           LET paths == OutputPaths(strftime(now))
           IN  /\ files' = WriteFiles(files, paths, final_text, saves')
               /\ lost' = lost \cup Replaced(files, paths)
    /\ UNCHANGED <<saveFrame, now>>

NextSave == Tick \/ SaveHTML \/ SaveOutputs

SpecSave == InitSave /\ [][NextSave]_vars

-----------------------------------------------------------------------------
(* build_muti_agent_crew (src/build_crew.py) *)

\* a plausible slip: the resume boost task listed before the task that
\* extracts the resume skills
CrewTasks_BoostFirst ==
    <<"job_search_task", "job_requirements_task", "job_requirements_analysis_task",
      "resume_boost_task", "resume_skills_extraction_task", "report_writing_task">>

\* lines 215-216: tasks=[...]
CrewTasks ==
    <<"job_search_task", "job_requirements_task", "job_requirements_analysis_task",
      "resume_skills_extraction_task", "resume_boost_task", "report_writing_task">>

\* the context=[...] of each task (lines 128, 161, 208); the first three
\* tasks name none
TaskContext(t) ==
    CASE t = "resume_boost_task" ->
             {"job_requirements_analysis_task", "resume_skills_extraction_task"}
      [] t = "report_writing_task" ->
             {"job_requirements_analysis_task", "resume_boost_task"}
      [] OTHER -> {}

TaskNames == {CrewTasks[i] : i \in DOMAIN CrewTasks}

-----------------------------------------------------------------------------
(* Specification SpecCrew: one kickoff of the crew, process=Process.sequential *)

InitCrew ==
    /\ pc = "crew_kickoff"
    /\ \E n \in 0..MaxPosts : crew_inputs = [total_num_posts |-> n]
    /\ task_status = [t \in TaskNames |-> "pending"]
    /\ task_output = [t \in TaskNames |-> "none"]
    /\ items_per_doc = Idle /\ df = Idle /\ total = 0 /\ table = Idle
    /\ items = Idle /\ oracle = Idle /\ canonical_map = Idle
    /\ job_extractions = Idle /\ resume_extraction = Idle /\ results = Idle
    /\ run = Idle /\ ExIdle /\ GjIdle /\ SvIdle

crewFrame == <<dfVars, canonVars, canonical_map, anVars, run, exVars, gjVars, svVars,
               crew_inputs>>

\* Process.sequential: the next task of the list starts when every task
\* listed before it is done
TaskStart ==
    /\ pc = "crew_kickoff"
    /\ \E i \in DOMAIN CrewTasks :
           /\ task_status[CrewTasks[i]] = "pending"
           /\ \A j \in 1..(i - 1) : task_status[CrewTasks[j]] = "done"
           /\ task_status' = [task_status EXCEPT ![CrewTasks[i]] = "running"]
    /\ UNCHANGED <<crewFrame, pc, task_output>>

\* the running task's agent answers
TaskFinish ==
    /\ pc = "crew_kickoff"
    /\ \E t \in TaskNames, out \in {"output", "empty"} :
           /\ task_status[t] = "running"
           /\ task_status' = [task_status EXCEPT ![t] = "done"]
           /\ task_output' = [task_output EXCEPT ![t] = out]
    /\ UNCHANGED <<crewFrame, pc>>

\* the running task raises: kickoff raises
TaskRaise ==
    /\ pc = "crew_kickoff"
    /\ \E t \in TaskNames : task_status[t] = "running"
    /\ pc' = "crew_raised"
    /\ UNCHANGED <<crewFrame, task_status, task_output>>

\* every task is done: kickoff returns
CrewReturn ==
    /\ pc = "crew_kickoff"
    /\ \A t \in TaskNames : task_status[t] = "done"
    /\ pc' = "crew_returned"
    /\ UNCHANGED <<crewFrame, task_status, task_output>>

NextCrew == TaskStart \/ TaskFinish \/ TaskRaise \/ CrewReturn

SpecCrew == InitCrew /\ [][NextCrew]_vars

-----------------------------------------------------------------------------
(* Claims about compute_document_frequency and to_table (SpecDF) *)

DFReturned == pc \in {"df_returned", "df_tabled"}

\* the postings whose list holds a raw string that normalizes to token k
PostingsWith(k) ==
    {d \in DOMAIN items_per_doc :
        \E j \in DOMAIN items_per_doc[d] : normalize_token(items_per_doc[d][j]) = k}

\* the postings whose list holds a counted raw string that normalizes to k
PostingsCounting(k) ==
    {d \in DOMAIN items_per_doc :
        \E j \in DOMAIN items_per_doc[d] :
            Truthy(items_per_doc[d][j]) /\ normalize_token(items_per_doc[d][j]) = k}

\* the first posting in which token k is counted
FirstPosting(k) ==
    CHOOSE d \in PostingsCounting(k) : \A e \in PostingsCounting(k) : d <= e

\* C1: every token of the returned frequency table has a count that is at
\* most the returned total, and the total is the number of lists passed in.
C1_CountAtMostTotal ==
    DFReturned =>
        /\ total = Len(items_per_doc)
        /\ \A i \in DOMAIN df : df[i].count <= total

\* C1 witness: a token repeated inside one posting's list and present in
\* every posting reaches the total exactly.
C1_Witness ==
    /\ pc = "df_returned"
    /\ total = 2
    /\ \E i \in DOMAIN df : df[i].count = total
    /\ \E d \in DOMAIN items_per_doc :
           /\ Len(items_per_doc[d]) = 2
           /\ Truthy(items_per_doc[d][1])
           /\ normalize_token(items_per_doc[d][1]) = normalize_token(items_per_doc[d][2])

\* C2: the count of every token of the table equals the number of postings
\* whose list contains at least one raw string that normalizes to that token.
C2_CountIsPostingsWithToken ==
    DFReturned =>
        \A k \in CounterKeys(df) : CounterGet(df, k) = Cardinality(PostingsWith(k))

\* C3: the empty token is never a key of the returned frequency table.
C3_NoEmptyToken ==
    DFReturned => EmptyStr \notin CounterKeys(df)

\* C5 as claimed: rows are in descending count order and rows with equal
\* count are in the lexical order of their tokens.
C5_TiesLexical ==
    pc = "df_tabled" =>
        \A i, j \in DOMAIN table :
            i < j => \/ table[i].count > table[j].count
                     \/ /\ table[i].count = table[j].count
                        /\ LexLess(table[i].item, table[j].item)

\* C5 amended: rows are in descending count order and rows with equal count
\* keep the order in which their tokens were first inserted into the
\* counter, so a token first counted in an earlier posting comes first.
C5_TiesInsertionOrder ==
    pc = "df_tabled" =>
        \A i, j \in DOMAIN table :
            i < j => \/ table[i].count > table[j].count
                     \/ /\ table[i].count = table[j].count
                        /\ CounterPos(df, table[i].item) < CounterPos(df, table[j].item)
                        /\ FirstPosting(table[i].item) <= FirstPosting(table[j].item)

\* C5 witness: a table with a tied pair of rows whose tokens, first counted
\* in different postings, are not in lexical order.
C5_Witness ==
    /\ pc = "df_tabled"
    /\ \E i, j \in DOMAIN table :
           /\ i < j
           /\ table[i].count = table[j].count
           /\ LexLess(table[j].item, table[i].item)
           /\ FirstPosting(table[i].item) < FirstPosting(table[j].item)

-----------------------------------------------------------------------------
(* Claims about canonicalize_items (SpecCanon) *)

\* the agent's answer has no entry for key it, or an entry whose label is
\* empty or normalizes to the empty string
NoUsableLabel(it) ==
    \/ it \notin DOMAIN ResponseMap(oracle)
    \/ normalize_token(ResponseMap(oracle)[it]) = EmptyStr

\* C7 as claimed: every input token has an entry under its normalized form
\* and every key of the map is the normalized form of an input token.
C7_TotalOverAllInputs ==
    pc = "canon_returned" =>
        /\ \A j \in DOMAIN items : normalize_token(items[j]) \in DOMAIN canonical_map
        /\ \A k \in DOMAIN canonical_map :
               \E j \in DOMAIN items : normalize_token(items[j]) = k

\* C7 amended: every input token that is not empty or whitespace-only has
\* an entry under its normalized form, and every key of the map is the
\* normalized form of such an input token, whatever keys the agent answered.
C7_TotalOverNonBlankInputs ==
    pc = "canon_returned" =>
        /\ \A j \in DOMAIN items :
               Truthy(items[j]) => normalize_token(items[j]) \in DOMAIN canonical_map
        /\ \A k \in DOMAIN canonical_map :
               \E j \in DOMAIN items : Truthy(items[j]) /\ normalize_token(items[j]) = k

\* C7 witness: a map returned for two spellings of one token while the
\* agent's answer has a key that is no input token.
C7_Witness ==
    /\ pc = "canon_returned"
    /\ Len(items) = 2
    /\ items[1] # items[2]
    /\ Truthy(items[1])
    /\ normalize_token(items[1]) = normalize_token(items[2])
    /\ \E k \in DOMAIN ResponseMap(oracle) : k \notin UniqueItems(items)

\* C8 as claimed: an input token for which the agent gave no usable label
\* is sent to itself (its normalized form); no input token is dropped.
C8_FallbackForAllInputs ==
    pc = "canon_returned" =>
        \A j \in DOMAIN items :
            LET it == normalize_token(items[j])
            IN  /\ it \in DOMAIN canonical_map
                /\ NoUsableLabel(it) => canonical_map[it] = it

\* C8 amended: an input token that is not empty or whitespace-only and for
\* which the agent gave no usable label is sent to itself (its normalized
\* form); no such input token is dropped from the map.
C8_FallbackForNonBlankInputs ==
    pc = "canon_returned" =>
        \A j \in DOMAIN items :
            Truthy(items[j]) =>
                LET it == normalize_token(items[j])
                IN  /\ it \in DOMAIN canonical_map
                    /\ NoUsableLabel(it) => canonical_map[it] = it

\* C8 witness: one token the agent left out and one it answered with a
\* label that normalizes to the empty string, both sent to themselves.
C8_Witness ==
    /\ pc = "canon_returned"
    /\ oracle.kind = "map"
    /\ \E it \in DOMAIN canonical_map :
           it \notin DOMAIN oracle.cmap /\ canonical_map[it] = it
    /\ \E it \in DOMAIN canonical_map :
           /\ it \in DOMAIN oracle.cmap
           /\ oracle.cmap[it] # EmptyStr
           /\ normalize_token(oracle.cmap[it]) = EmptyStr
           /\ canonical_map[it] = it

\* the identity mapping over the tokens handed to the normalizer agent
IdentityMap(its) == [it \in UniqueItems(its) |-> it]

\* C11: when the normalizer agent fails (the call raises or its output holds
\* no JSON), canonicalize_items returns the identity mapping for every token.
C11_OracleFailureFallsBack ==
    (pc # "canon_call" /\ oracle.kind = "fail" /\ UniqueItems(items) # {}) =>
        /\ pc = "canon_returned"
        /\ canonical_map = IdentityMap(items)


\* the strings a posting or resume list can hold
AnyToken == RawStrings \cup OracleLabels \cup OracleKeys

\* C9: applying a returned canonical map, with identity as default, to an
\* already mapped token yields the same token.
C9_Idempotent ==
    pc = "canon_returned" =>
        \A t \in AnyToken :
            apply_one(canonical_map, apply_one(canonical_map, t))
                = apply_one(canonical_map, t)

-----------------------------------------------------------------------------
(* Claims about analyze (SpecAnalyze) *)

\* the rows of the three tables analyze returns
ResultRows ==
    Range(results.skills_table) \cup Range(results.clouds_table)
        \cup Range(results.certs_table)

CloudVocabulary == {normalize_token(S_AWS), normalize_token(S_Azure), normalize_token(S_GCP)}

\* C6: the cloud-platform table holds only labels of {AWS, Azure, GCP}.
C6_CloudVocabularyOnly ==
    pc = "analyze_returned" =>
        \A row \in Range(results.clouds_table) : row.item \in CloudVocabulary

\* the candidate's canonicalized items: every string of the four resume
\* lists, normalized and sent through the canonical map
CandidateItems ==
    {apply_one(canonical_map, x) :
        x \in Range(resume_extraction.skills) \cup Range(resume_extraction.tools)
              \cup Range(resume_extraction.certifications)
              \cup Range(resume_extraction.cloud_platforms)}

\* the canonical tokens of a list of raw strings
TokensOf(lst) == {apply_one(canonical_map, x) : x \in Range(lst)} \ {EmptyStr}

\* the canonical tokens posting i holds in its skills and tools, in its
\* certifications, in its cloud platforms, and in any category
SkillTokens(i) == TokensOf(job_extractions[i].skills \o job_extractions[i].tools)
CertTokens(i) == TokensOf(job_extractions[i].certifications)
CloudTokens(i) == TokensOf(job_extractions[i].cloud_platforms)
PostingTokens(i) == SkillTokens(i) \cup CertTokens(i) \cup CloudTokens(i)

\* the postings in which token t appears
PostingsMentioning(t) == {i \in DOMAIN job_extractions : t \in PostingTokens(i)}

\* the distinct market tokens, and those the candidate lacks
MarketTokens == UNION {PostingTokens(i) : i \in DOMAIN job_extractions}
MissingTokens == MarketTokens \ CandidateItems

\* C12: top10_missing never holds a token of the candidate's canonicalized
\* item set.
C12_GapDisjointFromCandidate ==
    pc = "analyze_returned" =>
        \A i \in DOMAIN results.top10_missing :
            results.top10_missing[i] \notin CandidateItems

\* C12 witness: the candidate holds a certification or cloud platform the
\* postings ask for, and other requirements are reported as missing.
C12_Witness ==
    /\ pc = "analyze_returned"
    /\ results.top10_missing # <<>>
    /\ \E t \in MarketTokens \cap CandidateItems :
           /\ t \in TokensOf(resume_extraction.certifications
                             \o resume_extraction.cloud_platforms)
           /\ t \notin Range(results.top10_missing)

\* C13: the gap list is in descending order of the number of postings a
\* token appears in, also when a token occurs in several categories of one
\* posting.
C13_GapDescendingPostingCount ==
    pc = "analyze_returned" =>
        \A i, j \in DOMAIN results.top10_missing :
            i < j => Cardinality(PostingsMentioning(results.top10_missing[i]))
                       >= Cardinality(PostingsMentioning(results.top10_missing[j]))

\* the count a table shows for token t, 0 when the table has no row for it
RowCount(tbl, t) ==
    IF \E i \in DOMAIN tbl : tbl[i].item = t
    THEN (CHOOSE row \in Range(tbl) : row.item = t).count
    ELSE 0

\* the count the market ranking gives token t: the counts of the three
\* tables added up (lines 349-352)
MarketCount(t) ==
    RowCount(results.skills_table, t) + RowCount(results.certs_table, t)
        + RowCount(results.clouds_table, t)

\* C14: top10_missing has min(10, number of distinct market tokens the
\* candidate lacks) entries, no entry twice, all of them missing tokens, in
\* the order of the market ranking, and no missing token left out ranks
\* above one that is listed; with an empty candidate set these are the
\* first ten of the market ranking.
C14_GapIsTopOfMissing ==
    pc = "analyze_returned" =>
        LET g == results.top10_missing
            k == Cardinality(MissingTokens)
        IN  /\ Len(g) = IF k < TopMissing THEN k ELSE TopMissing
            /\ \A i \in DOMAIN g : g[i] \in MissingTokens
            /\ \A i, j \in DOMAIN g : i < j =>
                   g[i] # g[j] /\ MarketCount(g[i]) >= MarketCount(g[j])
            /\ \A t \in MissingTokens \ Range(g) :
                   \A i \in DOMAIN g : MarketCount(g[i]) >= MarketCount(t)

\* C14 witness: more than ten market tokens are missing and ten are listed.
C14_Witness ==
    /\ pc = "analyze_returned"
    /\ Cardinality(MissingTokens) > TopMissing
    /\ Len(results.top10_missing) = TopMissing

\* C15: a result computed for an empty candidate set is marked so that it
\* differs from every result analyze returns for a candidate with items, on
\* the same postings and map.
C15_EmptyProfileDistinguishable ==
    (pc = "analyze_returned" /\ CandidateItems = {}) =>
        \A r \in ResumeExtractionValues :
            ResumeItems(canonical_map, r) # {} =>
                results \notin analyze(job_extractions, r, canonical_map)

\* table tbl shows exactly the tokens of the postings' lists, each with the
\* number of postings that hold it; Toks(i) are the tokens of posting i
TableOfPostings(tbl, Toks(_)) ==
    /\ {tbl[i].item : i \in DOMAIN tbl} = UNION {Toks(i) : i \in DOMAIN job_extractions}
    /\ \A i \in DOMAIN tbl :
           tbl[i].count = Cardinality({d \in DOMAIN job_extractions : tbl[i].item \in Toks(d)})

\* C16: the three tables depend on the postings and the canonical map only:
\* whatever the resume extraction, each table shows the tokens of the
\* postings and the number of postings holding each.
C16_TablesFromPostingsOnly ==
    pc = "analyze_returned" =>
        /\ results.n = Len(job_extractions)
        /\ TableOfPostings(results.skills_table, SkillTokens)
        /\ TableOfPostings(results.certs_table, CertTokens)
        /\ TableOfPostings(results.clouds_table, CloudTokens)

\* C16 witness: the resume holds a token no posting holds and a token some
\* posting holds; the first is in no table.
C16_Witness ==
    /\ pc = "analyze_returned"
    /\ results.skills_table # <<>>
    /\ CandidateItems \cap MarketTokens # {}
    /\ \E t \in CandidateItems \ MarketTokens :
           t # EmptyStr /\ MarketCount(t) = 0

-----------------------------------------------------------------------------
(* Claims about the aggregation functions together (SpecAggregate) *)

\* C23: for an empty posting list compute_document_frequency returns an
\* empty Counter with total 0, to_table yields an empty table, and analyze
\* returns n = 0, three empty tables and an empty gap list.
C23_EmptyPostingList ==
    /\ (DFReturned /\ items_per_doc = <<>>) => df = <<>> /\ total = 0
    /\ (pc = "df_tabled" /\ items_per_doc = <<>>) => table = <<>>
    /\ (pc = "analyze_returned" /\ job_extractions = <<>>) =>
           results = [n |-> 0, skills_table |-> <<>>, clouds_table |-> <<>>,
                      certs_table |-> <<>>, top10_missing |-> <<>>]

\* C23 witness: analyze has returned for no postings and a resume with items.
C23_Witness ==
    /\ pc = "analyze_returned"
    /\ job_extractions = <<>>
    /\ resume_extraction.skills # <<>>
    /\ results.n = 0 /\ results.skills_table = <<>>

-----------------------------------------------------------------------------
(* Claims about run (Spec) *)

\* a call of run has ended, by returning or by raising
RunEnded == pc \in {"run_returned", "run_raised"}

\* C18: a run in which the job extractor agent fails for one posting still
\* returns, with the aggregation done over the other postings.
C18_BadPostingDoesNotAbort ==
    (RunEnded /\ run.failing_posting # 0) =>
        /\ pc = "run_returned"
        /\ run.error = "none"
        /\ run.analyze_calls = 1

\* C21: a run whose resume extraction fails still returns, with the
\* aggregation over the postings done and the market tables reported.
C21_ResumeFailureOnlyGap ==
    (RunEnded /\ ~run.resume_readable) =>
        /\ pc = "run_returned"
        /\ run.analyze_calls = 1

\* a required key is missing from the environment, or run is asked for
\* zero postings
ConfigurationError ==
    ~run.openai_api_key \/ ~run.serp_api_key \/ run.num_posts = 0

C24_SummaryStatesProcessedAndRequested ==
    RunEnded => {"num_job_postings", "num_requested"} \subseteq DOMAIN run.summary

\* C10: within one run the canonical map is computed exactly once and
\* analyze is applied with it.
C10_MapComputedOnce ==
    RunEnded => run.canon_calls = 1 /\ run.analyze_calls = 1

-----------------------------------------------------------------------------
(* Claims about extract_job_requirements and extract_resume (SpecExtract) *)

\* C20: after extract_job_requirements or extract_resume returns, every
\* expected category key maps to a list, whether the agent left the key out
\* or answered null for it.
C20_CategoriesAreLists ==
    /\ pc = "extract_job_returned" => \A k \in JobKeys : data[k].tag = "list"
    /\ pc = "extract_resume_returned" => \A k \in ResumeKeys : data[k].tag = "list"

-----------------------------------------------------------------------------
(* Claims about GoogleJobsCollectorTool._run (SpecCollect) *)

\* C19: a listing request that raises for one job does not abort the
\* collection: _run does not end with that exception.
C19_BadListingDoesNotAbort ==
    exc = "listing" => pc # "collect_raised"

\* C27: for every limit >= 0, _run returns at most limit postings, and once
\* limit postings are collected no search or listing request is issued.
C27_AtMostLimit ==
    /\ [](pc = "collect_returned" => Len(collected) <= limit)
    /\ [][Len(collected) >= limit => requests' = requests]_vars

\* the normalized (title, company, location) key of a collected posting
PostingKey(p) == <<_normalize(p.title), _normalize(p.company), _normalize(p.location)>>

\* at least 60% of the letter tokens of target title tt occur in title ft
CoversTarget(ft, tt) ==
    LET tokens == AlphaTokens(_normalize(tt))
    IN  /\ tokens # {}
        /\ 5 * Cardinality(tokens \cap AlphaTokens(_normalize(ft))) >= 3 * Cardinality(tokens)

\* C28: the collected postings differ pairwise in their normalized (title,
\* company, location) key, across all titles searched, and the title of
\* each covers at least 60% of the letter tokens of some target title.
C28_DistinctAndSimilar ==
    /\ \A i, j \in DOMAIN collected :
           i # j => PostingKey(collected[i]) # PostingKey(collected[j])
    /\ \A i \in DOMAIN collected :
           \E k \in DOMAIN job_titles : CoversTarget(collected[i].title, job_titles[k])

\* C28 witness: _run has returned two postings found under two searches; in
\* the second search a posting already collected came again, spelled
\* differently, and a posting with a foreign title came.
C28_Witness ==
    /\ pc = "collect_returned"
    /\ title_idx = 2
    /\ Len(collected) = 2
    /\ \E i \in DOMAIN search_jobs :
           /\ i < job_idx
           /\ search_jobs[i].title # collected[1].title
           /\ KeyOf(search_jobs[i]) = PostingKey(collected[1])
    /\ \E i \in DOMAIN search_jobs :
           i < job_idx /\ ~_title_is_similar(search_jobs[i].title, job_titles)

-----------------------------------------------------------------------------
(* Claims about the saved files (SpecSave) *)

\* C25: no write ever replaces a file that an earlier save or run produced.
C25_NoOverwrite == lost = {}

-----------------------------------------------------------------------------
(* Claims about the crew (SpecCrew) *)

\* the place of task t in the crew's list
Position(t) == CHOOSE i \in DOMAIN CrewTasks : CrewTasks[i] = t

\* C26: the tasks run one at a time in their listed order, every task named
\* in a task's context is listed earlier, and a task has not started before
\* every task of its context is done.
C26_SequentialAfterContext ==
    /\ Cardinality({t \in TaskNames : task_status[t] = "running"}) <= 1
    /\ \A i, j \in DOMAIN CrewTasks :
           (i < j /\ task_status[CrewTasks[j]] # "pending")
               => task_status[CrewTasks[i]] = "done"
    /\ \A t \in TaskNames : \A c \in TaskContext(t) :
           /\ Position(c) < Position(t)
           /\ task_status[t] # "pending" => task_status[c] = "done"

\* C26 witness: the report writing task runs, the five tasks before it done.
C26_Witness ==
    /\ pc = "crew_kickoff"
    /\ task_status["report_writing_task"] = "running"
    /\ \A t \in TaskNames \ {"report_writing_task"} : task_status[t] = "done"
    /\ task_output["resume_boost_task"] = "output"

====
